---- MODULE Spec2Model ----
(***************************************************************************)
(* Model of the BMAD story synchronisation engine (src/src/bmad_sync):     *)
(* the frontmatter codec, the GitHub project client, the Push run          *)
(* (sync_stories) and the Pull run (pull_stories).                         *)
(*                                                                         *)
(* Python strings are modelled as sequences of one-character strings, so   *)
(* that strip, lower, startswith, split, replace, splitlines and join are  *)
(* computed, character by character, as the code computes them.            *)
(***************************************************************************)
EXTENDS Integers, Sequences, FiniteSets, TLC

VARIABLES
    dirExists,   \* the local story directory exists
    files,       \* the directory: set of [name, content] with distinct names
    token,       \* the credentials are accepted by the remote
    remote,      \* the project board: sequence of items, in listing order
    calls,       \* client calls issued by the last run, in order
    writes,      \* local file writes made by the last run, in order
    result,      \* outcome of the last run
    hist,        \* summaries of the runs so far, oldest first
    codec,       \* a codec computation: its inputs, its stage and its output
    game         \* a HangmanGame object, with the last guess and what it returned

vars == <<dirExists, files, token, remote, calls, writes, result, hist, codec, game>>

syncVars == <<dirExists, files, token, remote, calls, writes, result, hist>>

\* Optional values (Python's "x | None"): None, or Some(x)
None == <<>>
Some(x) == <<x>>
Val(o) == o[1]

(***************************************************************************)
(* Python str operations.                                                  *)
(***************************************************************************)
Chars(s) == [i \in 1..Len(s) |-> SubSeq(s, i, i)]

NL == "\n"
TAB == "\t"

\* the characters of the model in code point order
CodePoints ==
    Chars("\t\n \"#'-.0123456789:ABCDEFGHIJKLMNOPQRSTUVWXYZ[]_abcdefghijklmnopqrstuvwxyz")

Ord(c) == CHOOSE i \in 1..Len(CodePoints) : CodePoints[i] = c

UpperCase == Chars("ABCDEFGHIJKLMNOPQRSTUVWXYZ")
LowerCase == Chars("abcdefghijklmnopqrstuvwxyz")

LowerChar(c) ==
    IF \E i \in 1..Len(UpperCase) : UpperCase[i] = c
    THEN LowerCase[CHOOSE i \in 1..Len(UpperCase) : UpperCase[i] = c]
    ELSE c

\* str.lower
Lower(s) == [i \in 1..Len(s) |-> LowerChar(s[i])]

SetMin(S) == CHOOSE x \in S : \A y \in S : x <= y
SetMax(S) == CHOOSE x \in S : \A y \in S : x >= y

\* str.strip(chars): drop leading and trailing characters that are in drop
StripSet(s, drop) ==
    LET keep == {i \in 1..Len(s) : s[i] \notin drop}
    IN  IF keep = {} THEN <<>> ELSE SubSeq(s, SetMin(keep), SetMax(keep))

\* str.lstrip(chars)
LStripSet(s, drop) ==
    LET keep == {i \in 1..Len(s) : s[i] \notin drop}
    IN  IF keep = {} THEN <<>> ELSE SubSeq(s, SetMin(keep), Len(s))

\* str.rstrip(chars)
RStripSet(s, drop) ==
    LET keep == {i \in 1..Len(s) : s[i] \notin drop}
    IN  IF keep = {} THEN <<>> ELSE SubSeq(s, 1, SetMax(keep))

Whitespace == {" ", NL, TAB}

\* str.strip() and str.rstrip()
Strip(s) == StripSet(s, Whitespace)
RStrip(s) == RStripSet(s, Whitespace)

\* str.startswith
StartsWith(s, p) == Len(s) >= Len(p) /\ SubSeq(s, 1, Len(p)) = p

\* c in s
Contains(s, c) == \E i \in 1..Len(s) : s[i] = c

FirstIndex(s, c) == SetMin({i \in 1..Len(s) : s[i] = c})

\* s.split(c, 1)[0] and s.split(c, 1)[1], for s that contains c
BeforeFirst(s, c) == SubSeq(s, 1, FirstIndex(s, c) - 1)
AfterFirst(s, c) == SubSeq(s, FirstIndex(s, c) + 1, Len(s))

\* s.replace(a, b) for single characters
Replace(s, a, b) == [i \in 1..Len(s) |-> IF s[i] = a THEN b ELSE s[i]]

\* str.splitlines: a final line break opens no further line
SplitLines(s) ==
    LET nl == {i \in 1..Len(s) : s[i] = NL}
        n == Cardinality(nl)
        pos(k) == CHOOSE p \in nl : Cardinality({q \in nl : q < p}) = k - 1
        start(k) == IF k = 1 THEN 1 ELSE pos(k - 1) + 1
        last == IF n = 0 THEN 0 ELSE pos(n)
    IN  [k \in 1..n |-> SubSeq(s, start(k), pos(k) - 1)]
        \o (IF last < Len(s) THEN <<SubSeq(s, last + 1, Len(s))>> ELSE <<>>)

RECURSIVE Join(_)
\* "\n".join(lines)
Join(lines) ==
    IF lines = <<>> THEN <<>>
    ELSE IF Len(lines) = 1 THEN lines[1]
    ELSE lines[1] \o <<NL>> \o Join(Tail(lines))

\* lexicographic order of str by code point: a < b
StrLess(a, b) ==
    \/ /\ Len(a) < Len(b)
       /\ SubSeq(b, 1, Len(a)) = a
    \/ \E i \in 1..Len(a) :
          /\ i <= Len(b)
          /\ SubSeq(a, 1, i - 1) = SubSeq(b, 1, i - 1)
          /\ Ord(a[i]) < Ord(b[i])

\* sorted(S) for a finite set of distinct strings
Sorted(S) ==
    [k \in 1..Cardinality(S) |->
        CHOOSE x \in S : Cardinality({y \in S : StrLess(y, x)}) = k - 1]

\* [x for x in seq if x in S]
RECURSIVE SelectIn(_, _)
SelectIn(seq, S) ==
    IF seq = <<>> THEN <<>>
    ELSE (IF Head(seq) \in S THEN <<Head(seq)>> ELSE <<>>) \o SelectIn(Tail(seq), S)

(***************************************************************************)
(* The frontmatter codec (sync.py and pull.py).                            *)
(***************************************************************************)
\* sync.py line 18: the value of a "key: value" line
LineValue(line) == StripSet(StripSet(Strip(AfterFirst(line, ":")), {"\""}), {"'"})

\* sync.py _extract_frontmatter_value: None, or Some(value of the first hit)
ExtractFrontmatterValue(lines, key) ==
    LET hits == {i \in 1..Len(lines) : StartsWith(Strip(lines[i]), key \o <<":">>)}
    IN  IF hits = {} THEN None ELSE Some(LineValue(lines[SetMin(hits)]))

\* NormalizeLowered without the hyphenated spelling
NormalizeLoweredTwoSpellings(normalized) ==
    IF normalized = Chars("todo") THEN Chars("todo")
    ELSE IF normalized \in {Chars("in progress"), Chars("in_progress")}
         THEN Chars("in_progress")
    ELSE IF normalized = Chars("done") THEN Chars("done")
    ELSE Replace(normalized, " ", "_")

\* pull.py lines 25-31, normalized being status.strip().lower()
NormalizeLowered(normalized) ==
    IF normalized = Chars("todo") THEN Chars("todo")
    ELSE IF normalized \in {Chars("in progress"), Chars("in_progress"), Chars("in-progress")}
         THEN Chars("in_progress")
    ELSE IF normalized = Chars("done") THEN Chars("done")
    ELSE Replace(normalized, " ", "_")

\* pull.py _normalize_status
NormalizeStatus(status) == NormalizeLowered(Lower(Strip(status)))

Delimiter == Chars("---")

\* SplitFrontmatterLines comparing the lines as they are
SplitFrontmatterLinesUnstripped(lines) ==
    LET closing == {idx \in 2..Len(lines) : lines[idx] = Delimiter}
    IN  IF lines = <<>> \/ lines[1] # Delimiter \/ closing = {}
        THEN [fm |-> None, body |-> lines]
        ELSE [fm |-> Some(SubSeq(lines, 2, SetMin(closing) - 1)),
              body |-> SubSeq(lines, SetMin(closing) + 1, Len(lines))]

\* pull.py lines 36-41, lines being content.splitlines()
SplitFrontmatterLines(lines) ==
    LET closing == {idx \in 2..Len(lines) : Strip(lines[idx]) = Delimiter}
    IN  IF lines = <<>> \/ Strip(lines[1]) # Delimiter \/ closing = {}
        THEN [fm |-> None, body |-> lines]
        ELSE [fm |-> Some(SubSeq(lines, 2, SetMin(closing) - 1)),
              body |-> SubSeq(lines, SetMin(closing) + 1, Len(lines))]

\* pull.py _split_frontmatter: [fm |-> None or Some(lines), body |-> lines]
SplitFrontmatter(content) == SplitFrontmatterLines(SplitLines(content))

\* IsOwnedStripped with the colon of the key left out
IsOwnedPrefix(stripped) ==
    StartsWith(stripped, Chars("title")) \/ StartsWith(stripped, Chars("status"))

\* pull.py lines 48-49, stripped being line.strip().lower()
IsOwnedStripped(stripped) ==
    StartsWith(stripped, Chars("title:")) \/ StartsWith(stripped, Chars("status:"))

\* the test of pull.py line 49: the line carries one of the two owned keys
IsOwnedLine(line) == IsOwnedStripped(Lower(Strip(line)))

\* pull.py line 52: the two rendered lines
TitleLine(title) == Chars("title: \"") \o title \o Chars("\"")
StatusLine(status) == Chars("status: \"") \o status \o Chars("\"")

\* pull.py lines 45-51: [line for line in existing if not owned]
Filtered(existing) ==
    IF existing = None THEN <<>>
    ELSE SelectSeq(Val(existing), LAMBDA line : ~IsOwnedLine(line))

\* pull.py _build_frontmatter, existing being None or Some(lines)
BuildFrontmatter(title, status, existing) ==
    <<TitleLine(title), StatusLine(status)>> \o Filtered(existing)

\* pull.py lines 64-65: the body, synthesised when there is none
BodyLines(title, body_lines) ==
    IF body_lines = <<>> THEN <<Chars("# ") \o title, <<>>>> ELSE body_lines

\* pull.py lines 63-67, split being what lines 58-61 yield
RenderSplit(title, status, split) ==
    RStrip(Join(<<Delimiter>> \o BuildFrontmatter(title, status, split.fm)
                \o <<Delimiter, <<>>>> \o BodyLines(title, split.body)))
    \o <<NL>>

\* pull.py _render_story_content, existing_content being None or Some(str)
RenderStoryContent(title, status, existing_content) ==
    RenderSplit(title, status,
                IF existing_content = None \/ existing_content = Some(<<>>)
                THEN [fm |-> None, body |-> <<>>]
                ELSE SplitFrontmatter(Val(existing_content)))

(***************************************************************************)
(* The GitHub project client (github_project.py).  The board is a sequence *)
(* of items [title, status, archived]; an item's id is its index.  A       *)
(* client state st carries the board, whether the token is accepted, the   *)
(* number of GraphQL calls the remote still answers (-1: all of them), the *)
(* log of client calls and the pending exception (err, NoErr when none).   *)
(***************************************************************************)
NoErr == ""

Raise(st, e, arg) == [st EXCEPT !.err = e, !.errArg = arg]

LogCall(st, op, story_id, title, status) ==
    [st EXCEPT !.calls = Append(@, [op |-> op, story_id |-> story_id,
                                    title |-> title, status |-> status])]

\* _graphql: one request; it raises when the remote answers with errors
Graphql(st) ==
    IF st.err # NoErr THEN st
    ELSE IF ~st.token THEN Raise(st, "AuthenticationError", <<>>)
    ELSE IF st.fault = 0 THEN Raise(st, "GitHubApiError", <<>>)
    ELSE [st EXCEPT !.fault = IF @ > 0 THEN @ - 1 ELSE @]

\* ExtractStoryId taking the whole title where there is no prefix
ExtractStoryIdOrTitle(title) ==
    IF StartsWith(title, <<"[">>) /\ Contains(title, "]")
    THEN Some(LStripSet(BeforeFirst(title, "]"), {"["}))
    ELSE Some(title)

\* GitHubProjectClient._extract_story_id: None, or Some(story id)
ExtractStoryId(title) ==
    IF StartsWith(title, <<"[">>) /\ Contains(title, "]")
    THEN Some(LStripSet(BeforeFirst(title, "]"), {"["}))
    ELSE None

\* "if story_id:" of line 98: neither None nor empty
Truthy(story_id) == story_id # None /\ story_id # Some(<<>>)

\* an item the listing query returns and line 98 keeps
IsListed(item) == ~item.archived /\ Truthy(ExtractStoryId(item.title))

\* lines 94-100 over the ids of the kept items
ProjectItems(items, ids) ==
    [k \in 1..Len(ids) |->
        [item_id |-> ids[k], story_id |-> Val(ExtractStoryId(items[ids[k]].title))]]

\* the value _list_project_items returns for a board: ProjectItem(item_id, story_id)
ListProjectItems(items) ==
    ProjectItems(items,
                 SelectSeq([i \in 1..Len(items) |-> i], LAMBDA i : IsListed(items[i])))

\* next((item for item in items if item.story_id == story_id), None):
\* None, or Some(item_id of the first match)
Existing(listed, story_id) ==
    LET hit == {k \in 1..Len(listed) : listed[k].story_id = story_id}
    IN  IF hit = {} THEN None ELSE Some(listed[SetMin(hit)].item_id)

\* lines 146-152, normalized being status.strip().lower(); None for ValueError
OptionOfLowered(normalized) ==
    IF normalized = Chars("todo") THEN Some(Chars("todo"))
    ELSE IF normalized \in {Chars("in_progress"), Chars("in-progress")}
         THEN Some(Chars("in_progress"))
    ELSE IF normalized = Chars("done") THEN Some(Chars("done"))
    ELSE None

\* GitHubProjectClient._status_option_id; the option ids are named after their field
StatusOptionId(status) == OptionOfLowered(Lower(Strip(status)))

\* GitHubProjectClient.validate_auth
ValidateAuth(st) ==
    IF st.err # NoErr THEN st
    ELSE Graphql(LogCall(st, "validate_auth", <<>>, <<>>, <<>>))

\* the board after addProjectV2DraftIssue: the new item is its last
Added(s, title) ==
    IF s.err # NoErr THEN s
    ELSE [s EXCEPT !.items = Append(@, [title |-> title, status |-> <<>>,
                                        archived |-> FALSE]),
                   !.created = @ + 1]

\* GitHubProjectClient._add_draft_issue
AddDraftIssue(st, title) == Added(Graphql(st), title)

\* the board after updateProjectV2ItemFieldValue
StatusSet(s, item_id, option_id) ==
    IF s.err # NoErr THEN s ELSE [s EXCEPT !.items[item_id].status = option_id]

\* lines 114-132, option_id being what _status_option_id yields
UpdateStatusTo(st, item_id, status, option_id) ==
    IF option_id = None THEN Raise(st, "ValueError", status)
    ELSE StatusSet(Graphql(st), item_id, Val(option_id))

\* GitHubProjectClient._update_status
UpdateStatus(st, item_id, status) ==
    IF st.err # NoErr THEN st
    ELSE UpdateStatusTo(st, item_id, status, StatusOptionId(status))

\* the board after archiveProjectV2Item
Archived(s, item_id) ==
    IF s.err # NoErr THEN s ELSE [s EXCEPT !.items[item_id].archived = TRUE]

\* GitHubProjectClient._archive_item
ArchiveItem(st, item_id) == Archived(Graphql(st), item_id)

\* line 59 after line 56: the status of the item just added
UpdateAdded(s2, status) == UpdateStatus(s2, Len(s2.items), status)

\* lines 54-59, existing being the match of line 54
UpsertExisting(s1, existing, story_id, title, status) ==
    IF existing = None
    THEN UpdateAdded(AddDraftIssue(s1, <<"[">> \o story_id \o <<"]", " ">> \o title), status)
    ELSE UpdateStatus(s1, Val(existing), status)

\* lines 53-59, s1 being the client after the listing request
UpsertListed(s1, story_id, title, status) ==
    IF s1.err # NoErr THEN s1
    ELSE UpsertExisting(s1, Existing(ListProjectItems(s1.items), story_id),
                        story_id, title, status)

\* GitHubProjectClient.upsert_story
UpsertStory(st, story_id, title, status) ==
    IF st.err # NoErr THEN st
    ELSE UpsertListed(Graphql(LogCall(st, "upsert_story", story_id, title, status)),
                      story_id, title, status)

\* lines 63-66, existing being the match of line 63
ArchiveExisting(s1, existing) ==
    IF existing = None THEN s1 ELSE ArchiveItem(s1, Val(existing))

\* lines 62-66, s1 being the client after the listing request
ArchiveListed(s1, story_id) ==
    IF s1.err # NoErr THEN s1
    ELSE ArchiveExisting(s1, Existing(ListProjectItems(s1.items), story_id))

\* GitHubProjectClient.archive_story
ArchiveStory(st, story_id) ==
    IF st.err # NoErr THEN st
    ELSE ArchiveListed(Graphql(LogCall(st, "archive_story", story_id, <<>>, <<>>)),
                       story_id)

\* GitHubProjectClient.list_project_stories: the client after the call;
\* the value returned is StoryIds(ListProjectItems(st.items))
ListProjectStories(st) ==
    IF st.err # NoErr THEN st
    ELSE Graphql(LogCall(st, "list_project_stories", <<>>, <<>>, <<>>))

\* set(...) of sync.py line 48
StoryIds(listed) == {listed[k].story_id : k \in 1..Len(listed)}

(***************************************************************************)
(* The local directory: files is a set of [name, content], names distinct. *)
(***************************************************************************)
LastDot(name) == SetMax({i \in 1..Len(name) : name[i] = "."} \cup {0})

\* pathlib suffix: from the last dot on, none for a leading dot
Suffix(name) == IF LastDot(name) <= 1 THEN <<>> ELSE SubSeq(name, LastDot(name), Len(name))

\* pathlib stem: the name without its suffix
Stem(name) == IF LastDot(name) <= 1 THEN name ELSE SubSeq(name, 1, LastDot(name) - 1)

Names(fs) == {f.name : f \in fs}
FileAt(fs, name) == CHOOSE f \in fs : f.name = name

\* target.read_text() if target.exists() else None
ReadIfExists(fs, name) ==
    IF \E f \in fs : f.name = name THEN Some(FileAt(fs, name).content) ELSE None

\* target.write_text(content)
WriteText(fs, name, content) ==
    {f \in fs : f.name # name} \cup {[name |-> name, content |-> content]}

\* sync.py line 42: the .md files of the directory, sorted by path
StoryFiles(fs) == Sorted({f.name : f \in {g \in fs : Suffix(g.name) = Chars(".md")}})

\* sync.py lines 27-30, title and status being the values of lines 25-26
ParsedStory(name, title, status) ==
    IF title = None \/ status = None THEN None
    ELSE Some([story_id |-> Stem(name), title |-> Val(title), status |-> Val(status)])

\* sync.py lines 25-30, lines being content.splitlines()
ParseLines(name, lines) ==
    ParsedStory(name, ExtractFrontmatterValue(lines, Chars("title")),
                ExtractFrontmatterValue(lines, Chars("status")))

\* sync.py _parse_story_file: None when it raises ValueError
ParseStoryFile(f) == ParseLines(f.name, SplitLines(f.content))

(***************************************************************************)
(* Push: sync.py sync_stories.                                             *)
(***************************************************************************)
RECURSIVE UpsertAllSwallowing(_, _)
\* UpsertAll going on to the next story when an upsert raises
UpsertAllSwallowing(st, parsed) ==
    IF parsed = <<>> THEN st
    ELSE UpsertAllSwallowing(UpsertStory([st EXCEPT !.err = NoErr], Head(parsed).story_id,
                                         Head(parsed).title, Head(parsed).status),
                             Tail(parsed))

RECURSIVE UpsertAll(_, _)
\* sync.py lines 45-46
UpsertAll(st, parsed) ==
    IF parsed = <<>> \/ st.err # NoErr THEN st
    ELSE UpsertAll(UpsertStory(st, Head(parsed).story_id, Head(parsed).title,
                               Head(parsed).status),
                   Tail(parsed))

RECURSIVE ArchiveAll(_, _)
\* sync.py lines 51-52
ArchiveAll(st, ids) ==
    IF ids = <<>> \/ st.err # NoErr THEN st
    ELSE ArchiveAll(ArchiveStory(st, Head(ids)), Tail(ids))

\* sync.py line 54: the SyncResult
Returned(s4, n) == IF s4.err # NoErr THEN s4 ELSE [s4 EXCEPT !.total = n, !.updated = n]

\* sync.py line 49
CurrentStoryIds(parsed_stories) ==
    {parsed_stories[i].story_id : i \in 1..Len(parsed_stories)}

\* SyncListed archiving in descending order
SyncListedDescending(s3, parsed_stories) ==
    LET ids == Sorted(StoryIds(ListProjectItems(s3.items)) \ CurrentStoryIds(parsed_stories))
    IN  IF s3.err # NoErr THEN s3
        ELSE Returned(ArchiveAll(s3, [k \in 1..Len(ids) |-> ids[Len(ids) + 1 - k]]),
                      Len(parsed_stories))

\* sync.py lines 48-54, s3 being the client after list_project_stories
SyncListed(s3, parsed_stories) ==
    IF s3.err # NoErr THEN s3
    ELSE Returned(ArchiveAll(s3, Sorted(StoryIds(ListProjectItems(s3.items))
                                        \ CurrentStoryIds(parsed_stories))),
                  Len(parsed_stories))

\* SyncParsed with the loop of lines 45-46 starting at the second story
SyncParsedSkippingFirst(s1, parsed_stories) ==
    SyncListed(ListProjectStories(UpsertAll(s1, SubSeq(parsed_stories, 2,
                                                       Len(parsed_stories)))),
               parsed_stories)

\* sync.py lines 45-54
SyncParsed(s1, parsed_stories) ==
    SyncListed(ListProjectStories(UpsertAll(s1, parsed_stories)), parsed_stories)

\* SyncResults upserting the stories that come before the first bad file
SyncResultsUpsertingFirst(s1, story_files, results) ==
    LET bad == {i \in 1..Len(results) : results[i] = None}
    IN  IF bad # {}
        THEN Raise(UpsertAll(s1, [i \in 1..(SetMin(bad) - 1) |-> Val(results[i])]),
                   "ValueError", story_files[SetMin(bad)])
        ELSE SyncParsed(s1, [i \in 1..Len(results) |-> Val(results[i])])

\* sync.py lines 43-54, results being the outcome of _parse_story_file per file
SyncResults(s1, story_files, results) ==
    LET bad == {i \in 1..Len(results) : results[i] = None}
    IN  IF bad # {} THEN Raise(s1, "ValueError", story_files[SetMin(bad)])
        ELSE SyncParsed(s1, [i \in 1..Len(results) |-> Val(results[i])])

\* sync.py lines 42-54, story_files being the sorted .md files
SyncFiles(fs, s1, story_files) ==
    SyncResults(s1, story_files,
                [i \in 1..Len(story_files) |-> ParseStoryFile(FileAt(fs, story_files[i]))])

\* sync.py lines 40-54, s1 being the client after validate_auth
SyncAuthed(exists, fs, s1) ==
    IF s1.err # NoErr THEN s1
    ELSE IF ~exists THEN Raise(s1, "FileNotFoundError", <<>>)
    ELSE SyncFiles(fs, s1, StoryFiles(fs))

\* sync.py sync_stories: the client at the end of the run
SyncStories(exists, fs, st0) == SyncAuthed(exists, fs, ValidateAuth(st0))

(***************************************************************************)
(* Pull: pull.py pull_stories.                                             *)
(***************************************************************************)
\* the StoryRecord of a listed item: the title is what follows the prefix
StoryRecord(item, story_id) ==
    [story_id |-> story_id, title |-> Strip(AfterFirst(item.title, "]")),
     status |-> item.status]

\* the records of the listed items
StoryRecords(items, listed) ==
    [k \in 1..Len(listed) |-> StoryRecord(items[listed[k].item_id], listed[k].story_id)]

\* list_project_story_details: one StoryRecord per listed item
ListProjectStoryDetails(items) == StoryRecords(items, ListProjectItems(items))

\* pull.py lines 85-86
Written(acc, target, content) ==
    [files |-> WriteText(acc.files, target, content),
     writes |-> Append(acc.writes, [name |-> target, content |-> content])]

\* WriteStory with the status written as the board gives it
WriteStoryStatusAsGiven(acc, story, target) ==
    Written(acc, target,
            RenderStoryContent(story.title, story.status, ReadIfExists(acc.files, target)))

\* pull.py lines 78-86 for one story
WriteStory(acc, story, target) ==
    Written(acc, target,
            RenderStoryContent(story.title, NormalizeStatus(story.status),
                               ReadIfExists(acc.files, target)))

RECURSIVE WriteAll(_, _)
\* pull.py lines 77-86: the directory and the writes made, story by story
WriteAll(acc, stories) ==
    IF stories = <<>> THEN acc
    ELSE WriteAll(WriteStory(acc, Head(stories), Head(stories).story_id \o Chars(".md")),
                  Tail(stories))

\* pull.py line 88: the PullResult
Pulled(s2, n, done) ==
    [st |-> [s2 EXCEPT !.total = n, !.updated = Len(done.writes)],
     exists |-> TRUE, files |-> done.files, writes |-> done.writes]

\* pull.py lines 76-88, stories being the records listed
PullRecords(fs, s2, stories) ==
    Pulled(s2, Len(stories), WriteAll([files |-> fs, writes |-> <<>>], stories))

\* pull.py lines 74-88, s2 being the client after list_project_story_details
PullListed(fs, s2) ==
    IF s2.err # NoErr THEN [st |-> s2, exists |-> TRUE, files |-> fs, writes |-> <<>>]
    ELSE PullRecords(fs, s2, ListProjectStoryDetails(s2.items))

\* PullAuthed with the directory created before the credentials are checked
PullAuthedDirectoryFirst(exists, fs, s1) ==
    IF s1.err # NoErr THEN [st |-> s1, exists |-> TRUE, files |-> fs, writes |-> <<>>]
    ELSE PullListed(fs, Graphql(LogCall(s1, "list_project_story_details", <<>>, <<>>, <<>>)))

\* pull.py lines 71-88, s1 being the client after validate_auth
PullAuthed(exists, fs, s1) ==
    IF s1.err # NoErr THEN [st |-> s1, exists |-> exists, files |-> fs, writes |-> <<>>]
    ELSE PullListed(fs, Graphql(LogCall(s1, "list_project_story_details", <<>>, <<>>, <<>>)))

\* pull.py pull_stories: [st, exists, files, writes] at the end of the run
PullStories(exists, fs, st0) == PullAuthed(exists, fs, ValidateAuth(st0))

(***************************************************************************)
(* The hangman game (src/hangman/game.py).  A game is the record of the    *)
(* object's fields, with the argument of the last guess and what the call  *)
(* returned; guessed_letters is a set of str.                              *)
(***************************************************************************)
\* the default of the max_errors field
DefaultMaxErrors == 5

\* HangmanGame(word, max_errors) after __post_init__
NewGame(word, max_errors) ==
    [word |-> Lower(word), max_errors |-> max_errors, guessed_letters |-> {},
     score |-> 0, letter |-> None, returned |-> FALSE]

NoGame == NewGame(<<>>, DefaultMaxErrors)

\* "letter in self.word" for the str letter: it is a substring of the word
InWord(letter, word) ==
    \E i \in 0..(Len(word) - Len(letter)) : SubSeq(word, i + 1, i + Len(letter)) = letter

\* what a position of the word shows, game.py line 19
Shown(g, i) == IF <<g.word[i]>> \in g.guessed_letters THEN g.word[i] ELSE "_"

\* HangmanGame.masked_word: the positions joined by spaces
MaskedWord(g) ==
    [k \in 1..(IF g.word = <<>> THEN 0 ELSE 2 * Len(g.word) - 1) |->
        IF k % 2 = 1 THEN Shown(g, (k + 1) \div 2) ELSE " "]

\* game.py lines 31-34, g1 being the game with the letter added
GuessAdded(g1, letter) ==
    IF InWord(letter, g1.word) THEN [g1 EXCEPT !.returned = TRUE]
    ELSE [g1 EXCEPT !.score = @ + 1, !.returned = FALSE]

\* GuessLowered counting a letter of the word as a miss
GuessLoweredCountingAll(g, letter) ==
    IF letter = <<>> THEN [g EXCEPT !.returned = FALSE]
    ELSE IF letter \in g.guessed_letters
    THEN [g EXCEPT !.returned = InWord(letter, g.word)]
    ELSE [GuessAdded([g EXCEPT !.guessed_letters = @ \cup {letter}], letter)
            EXCEPT !.score = g.score + 1]

\* game.py lines 24-34, letter being letter.lower()
GuessLowered(g, letter) ==
    IF letter = <<>> THEN [g EXCEPT !.returned = FALSE]
    ELSE IF letter \in g.guessed_letters
    THEN [g EXCEPT !.returned = InWord(letter, g.word)]
    ELSE GuessAdded([g EXCEPT !.guessed_letters = @ \cup {letter}], letter)

\* HangmanGame.guess: the game after the call, returned being its value
Guess(g, letter) == [GuessLowered(g, Lower(letter)) EXCEPT !.letter = Some(letter)]

\* HangmanGame.is_won
IsWon(g) == \A i \in 1..Len(g.word) : <<g.word[i]>> \in g.guessed_letters

\* HangmanGame.is_lost
IsLost(g) == g.score >= g.max_errors

\* HangmanGame.status
Status(g) == IF IsWon(g) THEN "won" ELSE IF IsLost(g) THEN "lost" ELSE "ongoing"

(***************************************************************************)
(* Initial states: a local directory, a board and a token.                 *)
(***************************************************************************)
\* a story file as tests/test_bmad_sync.py write_story_file lays it out
Document(fm, body) ==
    Join(<<Delimiter>> \o fm \o <<Delimiter, <<>>>> \o body) \o <<NL>>

StoryDocument(title, status) ==
    Document(<<TitleLine(title), StatusLine(status)>>, <<Chars("# ") \o title>>)

File(name, content) == [name |-> Chars(name), content |-> content]

\* what the directory may hold under each name (None: no such file)
Story1Choices ==
    {None,
     Some(File("s1.md", StoryDocument(Chars("A"), Chars("todo")))),
     Some(File("s1.md", Document(<<StatusLine(Chars("todo"))>>,
                                 <<Chars("# A"), Chars("title: draft")>>)))}

Story2Choices ==
    {None,
     Some(File("s2.md", Document(<<TitleLine(Chars("B")), Chars("owner: pm"),
                                   StatusLine(Chars("in_progress"))>>,
                                 <<Chars("# B"), <<>>, Chars("text")>>))),
     Some(File("s2.md", Document(<<TitleLine(Chars("B"))>>, <<Chars("# B")>>))),
     Some(File("s2.md", StoryDocument(Chars("B"), Chars("In Progress"))))}

Story3Choices ==
    {None, Some(File("a]b.md", StoryDocument(Chars("C"), Chars("done"))))}

OtherFile == File("n.txt", Chars("title: n\nstatus: todo\n"))

Directories ==
    {{Val(c) : c \in {c1, c2, c3} \ {None}} \cup {OtherFile} :
        c1 \in Story1Choices, c2 \in Story2Choices, c3 \in Story3Choices}

Item(title, status) == [title |-> Chars(title), status |-> Chars(status), archived |-> FALSE]

\* the items the board may hold at first, in listing order
BoardChoices ==
    <<Item("[s1] A", "Todo"), Item("[s2] Bee", "In Progress"),
      Item("note", "Done"), Item("[s3] D", "On Hold")>>

Boards ==
    {SelectIn(BoardChoices, S) : S \in SUBSET {BoardChoices[i] : i \in 1..Len(BoardChoices)}}

NoResult == [op |-> "none", err |-> NoErr, errArg |-> <<>>, total |-> 0, updated |-> 0,
             created |-> 0]

CodecInput(title, status, existing) ==
    [stage |-> "input", title |-> title, status |-> status, existing |-> existing,
     extra |-> None, arg |-> <<>>, out |-> <<>>]

IdleCodec == [CodecInput(<<>>, <<>>, None) EXCEPT !.stage = "idle"]

InitSync ==
    /\ dirExists \in BOOLEAN
    /\ files \in (IF dirExists THEN Directories ELSE {{}})
    /\ token \in BOOLEAN
    /\ remote \in Boards
    /\ calls = <<>>
    /\ writes = <<>>
    /\ result = NoResult
    /\ hist = <<>>

Init == InitSync /\ codec = IdleCodec /\ game = NoGame

(***************************************************************************)
(* The runs.                                                               *)
(***************************************************************************)
MaxRuns == 3

\* the client as a run starts: flt GraphQL calls will be answered (-1: all)
Client(flt) ==
    [items |-> remote, token |-> token, fault |-> flt, calls |-> <<>>,
     err |-> NoErr, errArg |-> <<>>, total |-> 0, updated |-> 0, created |-> 0]

Outcome(op, st) ==
    [op |-> op, err |-> st.err, errArg |-> st.errArg, total |-> st.total,
     updated |-> st.updated, created |-> st.created]

\* what is kept of a run: its outcome, its calls, and the board and the
\* directory as it started
Summary(op, st) ==
    [op |-> op, err |-> st.err, calls |-> st.calls, created |-> st.created,
     board |-> remote, exists |-> dirExists, files |-> files]

\* the state after a Push run that ends with the client in state st
Pushed(st) ==
    /\ remote' = st.items
    /\ calls' = st.calls
    /\ writes' = <<>>
    /\ result' = Outcome("push", st)
    /\ hist' = Append(hist, Summary("push", st))

\* python -m bmad_sync.sync: one Push run
Push ==
    /\ Len(hist) < MaxRuns
    /\ Pushed(SyncStories(dirExists, files, Client(-1)))
    /\ UNCHANGED <<dirExists, files, token, codec, game>>

\* the state after a Pull run that ends as run says
PulledTo(run) ==
    /\ remote' = run.st.items
    /\ calls' = run.st.calls
    /\ writes' = run.writes
    /\ dirExists' = run.exists
    /\ files' = run.files
    /\ result' = Outcome("pull", run.st)
    /\ hist' = Append(hist, Summary("pull", run.st))

\* python -m bmad_sync.pull: one Pull run
Pull ==
    /\ Len(hist) < MaxRuns
    /\ PulledTo(PullStories(dirExists, files, Client(-1)))
    /\ UNCHANGED <<token, codec, game>>

Next == Push \/ Pull

Spec == Init /\ [][Next]_vars

(***************************************************************************)
(* The codec on its own: a title, a status and an existing document are    *)
(* drawn, and the codec's functions are applied to them.                   *)
(***************************************************************************)
CodecTitles ==
    {Chars("A"), Chars("\"A\""), Chars("'A'"), Chars("it's"), Chars(" A "), <<>>,
     Chars("A: b"), Chars("say \"hi\"")}

CodecStatuses ==
    {Chars("todo"), Chars(" In Progress "), Chars("in_progress"), Chars("IN-PROGRESS"),
     Chars("Done"), Chars("On Hold"), Chars("on\thold"), Chars("in  progress"), <<>>,
     Chars("'wip'"), Chars("\tTODO\n")}

FrontmatterChoices ==
    {<<>>,
     <<TitleLine(Chars("Old")), StatusLine(Chars("todo"))>>,
     <<Chars("owner: pm"), TitleLine(Chars("Old")), Chars("points: 3"),
       StatusLine(Chars("done"))>>,
     <<Chars("Title: Old"), Chars("tags:"), Chars("  - title"), Chars("  status: old"),
       Chars("title_note: x")>>,
     <<Chars("status_page: y"), Chars("subtitle: z"), Chars("STATUS : q")>>}

BodyChoices == {<<>>, <<Chars("# Old")>>, <<<<>>, Chars("# Old"), <<>>, Chars("text")>>}

ExistingChoices ==
    {None, Some(<<>>), Some(Chars("# Old\ntext\n")),
     Some(Chars("---\ntitle: \"Old\"\n# Old\n")),
     Some(Chars("--- \nowner: pm\n ---\nbody\n"))}
    \cup {Some(Document(fm, body)) : fm \in FrontmatterChoices, body \in BodyChoices}

\* lines a user may add to the frontmatter between two runs
ExtraLines == {Chars("owner: pm"), Chars("points: 3"), Chars("title_note: x")}

InitCodec ==
    /\ dirExists = FALSE
    /\ files = {}
    /\ token = FALSE
    /\ remote = <<>>
    /\ calls = <<>>
    /\ writes = <<>>
    /\ result = NoResult
    /\ hist = <<>>
    /\ codec \in {CodecInput(t, s, e) : t \in CodecTitles, s \in CodecStatuses,
                                       e \in ExistingChoices}
    /\ game = NoGame

\* pull.py line 82: the status is normalised
CodecNormalize ==
    /\ codec.stage = "input"
    /\ codec' = [codec EXCEPT !.stage = "normalized", !.out = NormalizeStatus(codec.status)]
    /\ UNCHANGED <<syncVars, game>>

\* pull.py lines 80-84: the document is rendered, with the status as given
\* or as normalised
CodecRenderWith(arg) ==
    codec' = [codec EXCEPT !.stage = "rendered", !.arg = arg,
                           !.out = RenderStoryContent(codec.title, arg, codec.existing)]

CodecRender ==
    /\ codec.stage \in {"input", "normalized"}
    /\ CodecRenderWith(IF codec.stage = "input" THEN codec.status ELSE codec.out)
    /\ UNCHANGED <<syncVars, game>>

\* pull.py line 59: the existing content is split
CodecSplit ==
    /\ codec.stage = "input"
    /\ codec.existing # None
    /\ codec' = [codec EXCEPT !.stage = "split", !.out = SplitFrontmatter(Val(codec.existing))]
    /\ UNCHANGED <<syncVars, game>>

\* the document doc with the lines extra added to its frontmatter
Injected(split, extra) ==
    Join(<<Delimiter>> \o Val(split.fm) \o extra \o <<Delimiter>> \o split.body) \o <<NL>>

\* a second run over the file the first run wrote
CodecRerenderOf(existing, extra) ==
    codec' = [codec EXCEPT !.stage = "rerendered", !.existing = Some(existing),
                           !.extra = extra,
                           !.out = RenderStoryContent(codec.title, codec.arg, Some(existing))]

\* the file written from no existing content is rendered again, a
\* frontmatter line possibly added to it in between
CodecRerender ==
    /\ codec.stage = "rendered"
    /\ codec.existing = None
    /\ \E extra \in {None} \cup {Some(l) : l \in ExtraLines} :
          CodecRerenderOf(Injected(SplitFrontmatter(codec.out), extra), extra)
    /\ UNCHANGED <<syncVars, game>>

NextCodec == CodecNormalize \/ CodecSplit \/ CodecRender \/ CodecRerender

SpecCodec == InitCodec /\ [][NextCodec]_vars

(***************************************************************************)
(* The client on its own: upsert_story and archive_story are called on a   *)
(* board, the remote answering flt GraphQL requests of an archive_story    *)
(* call (-1: all).  hist holds the last two calls, each with the board as  *)
(* it started.                                                             *)
(***************************************************************************)
MaxItems == 3

MaxFault == 1

Faults == {-1} \cup 0..MaxFault

ClientBoards == {<<>>, <<Item("[s1] A", "Todo"), Item("note", "Done")>>}

ArchiveIds == {Chars("s1"), Chars("a"), Chars("s9")}

UpsertChoices ==
    {<<Chars("s1"), Chars("A"), Chars("done")>>,
     <<Chars("s1"), Chars("A"), Chars("On Hold")>>,
     <<Chars("a]b"), Chars("C"), Chars("done")>>}

InitClient ==
    /\ dirExists = FALSE
    /\ files = {}
    /\ token = TRUE
    /\ remote \in ClientBoards
    /\ calls = <<>>
    /\ writes = <<>>
    /\ result = NoResult
    /\ hist = <<>>
    /\ codec = IdleCodec
    /\ game = NoGame

LastTwo(h) == IF Len(h) > 2 THEN Tail(h) ELSE h

\* the state after a call of the client that ends with the client in state st
Called(op, story_id, flt, st) ==
    /\ remote' = st.items
    /\ calls' = st.calls
    /\ result' = Outcome(op, st)
    /\ hist' = LastTwo(Append(hist, [op |-> op, story_id |-> story_id, fault |-> flt,
                                     err |-> st.err, board |-> remote]))
    /\ UNCHANGED <<dirExists, files, token, writes, codec, game>>

\* client.upsert_story(story_id=..., title=..., status=...)
ClientUpsert ==
    /\ Len(remote) < MaxItems
    /\ \E c \in UpsertChoices :
          Called("upsert", c[1], -1, UpsertStory(Client(-1), c[1], c[2], c[3]))

\* client.archive_story(story_id)
ClientArchive ==
    \E story_id \in ArchiveIds, flt \in Faults :
        Called("archive", story_id, flt, ArchiveStory(Client(flt), story_id))

NextClient == ClientUpsert \/ ClientArchive

SpecClient == InitClient /\ [][NextClient]_vars

(***************************************************************************)
(* Push against a remote that fails: the remote answers the first flt      *)
(* GraphQL requests of the run and answers the next one with errors.       *)
(***************************************************************************)
MaxFaultyRuns == 1

MaxRequests == 6

\* one Push run, the remote failing after flt requests
FaultyPush ==
    /\ Len(hist) < MaxFaultyRuns
    /\ \E flt \in 0..MaxRequests : Pushed(SyncStories(dirExists, files, Client(flt)))
    /\ UNCHANGED <<dirExists, files, token, codec, game>>

NextFault == FaultyPush

SpecFault == Init /\ [][NextFault]_vars

(***************************************************************************)
(* A hangman game: a word and an error limit are chosen, and letters are   *)
(* guessed.                                                                *)
(***************************************************************************)
HangmanWords == {Chars("Chat"), Chars("tata"), <<>>}

HangmanLetters ==
    {Chars("c"), Chars("h"), Chars("a"), Chars("t"), Chars("T"), Chars("z"), Chars("Z"),
     Chars("y"), Chars("x"), Chars("w"), Chars("v"), Chars("u")}

InitHangman ==
    /\ dirExists = FALSE
    /\ files = {}
    /\ token = FALSE
    /\ remote = <<>>
    /\ calls = <<>>
    /\ writes = <<>>
    /\ result = NoResult
    /\ hist = <<>>
    /\ codec = IdleCodec
    /\ game \in {NewGame(word, max_errors) :
                    word \in HangmanWords, max_errors \in {DefaultMaxErrors, 1}}

\* game.guess(letter)
HangmanGuess ==
    /\ \E letter \in HangmanLetters : game' = Guess(game, letter)
    /\ UNCHANGED <<syncVars, codec>>

NextHangman == HangmanGuess

SpecHangman == InitHangman /\ [][NextHangman]_vars

(***************************************************************************)
(* Properties.                                                             *)
(***************************************************************************)
LastRun == hist[Len(hist)]

PushDone == result.op = "push" /\ result.err = NoErr
PullDone == result.op = "pull" /\ result.err = NoErr

CallsOf(log, op) == SelectSeq(log, LAMBDA c : c.op = op)

MdFiles(fs) == {f \in fs : Len(f.name) > 3 /\ SubSeq(f.name, Len(f.name) - 2, Len(f.name)) = Chars(".md")}

NameStem(f) == SubSeq(f.name, 1, Len(f.name) - 3)

FrontmatterOf(f) == SplitFrontmatter(f.content).fm

\* a story file whose frontmatter block holds a title line and a status line
HasKeyLine(fm, key) == \E i \in 1..Len(fm) : StartsWith(fm[i], key \o <<":">>)

ValidStory(f) ==
    /\ FrontmatterOf(f) # None
    /\ HasKeyLine(Val(FrontmatterOf(f)), Chars("title"))
    /\ HasKeyLine(Val(FrontmatterOf(f)), Chars("status"))

\* the upsert call c carries the stem, the title and the status of file f
CarriesStory(c, f) ==
    /\ c.story_id = NameStem(f)
    /\ \E i \in 1..Len(Val(FrontmatterOf(f))) : Val(FrontmatterOf(f))[i] = TitleLine(c.title)
    /\ \E i \in 1..Len(Val(FrontmatterOf(f))) : Val(FrontmatterOf(f))[i] = StatusLine(c.status)

\* C1: a successful Push over a directory of N valid story files issues exactly
\* N upsert_story calls, one per file with the file's stem, title and status,
\* and returns total_stories = updated_stories = N.
C1_PushUpsertsEveryStory ==
    (PushDone /\ \A f \in MdFiles(files) : ValidStory(f)) =>
        /\ Len(CallsOf(calls, "upsert_story")) = Cardinality(MdFiles(files))
        /\ result.total = Cardinality(MdFiles(files))
        /\ result.updated = Cardinality(MdFiles(files))
        /\ \A f \in MdFiles(files) :
              Cardinality({i \in 1..Len(calls) :
                              calls[i].op = "upsert_story" /\ CarriesStory(calls[i], f)}) = 1

C1_Witness ==
    /\ PushDone
    /\ \A f \in MdFiles(files) : ValidStory(f)
    /\ Cardinality(MdFiles(files)) = 2
    /\ Len(CallsOf(calls, "upsert_story")) = 2

StoryIdsOf(log, op) == {c.story_id : c \in {log[i] : i \in {j \in 1..Len(log) : log[j].op = op}}}

\* the story ids the board lists as the last run starts, and the local ones
RemoteIdsBefore == StoryIds(ListProjectItems(LastRun.board))
LocalIds == {NameStem(f) : f \in MdFiles(files)}

\* C2: a successful Push calls archive_story for exactly the story ids that
\* were on the board before the run and are not local, each once, and calls
\* upsert_story for exactly the local story ids.
C2_ArchivesExactlyRemoved ==
    PushDone =>
        /\ StoryIdsOf(calls, "archive_story") = RemoteIdsBefore \ LocalIds
        /\ Len(CallsOf(calls, "archive_story")) = Cardinality(RemoteIdsBefore \ LocalIds)
        /\ StoryIdsOf(calls, "upsert_story") = LocalIds

\* C3: when validate_auth raises, the run ends with that error after this one
\* call: no upsert, archive or listing call, no directory created, no file
\* written, the board and the directory as they were.
C3_AuthFailureShortCircuits ==
    result.err = "AuthenticationError" =>
        /\ Len(calls) = 1
        /\ calls[1].op = "validate_auth"
        /\ writes = <<>>
        /\ remote = LastRun.board
        /\ files = LastRun.files
        /\ dirExists = LastRun.exists

C3_Witness ==
    /\ Len(hist) = 2
    /\ hist[1].op = "push"
    /\ hist[1].err = "AuthenticationError"
    /\ result.op = "pull"
    /\ result.err = "AuthenticationError"
    /\ ~dirExists
    /\ Len(remote) > 1

BothPushed(k) ==
    /\ hist[k - 1].op = "push"
    /\ hist[k - 1].err = NoErr
    /\ hist[k].op = "push"
    /\ hist[k].err = NoErr

DistinctStoryIds(listed) ==
    \A i, j \in 1..Len(listed) : listed[i].story_id = listed[j].story_id => i = j

\* C4: Push never creates a duplicate item: a Push run that follows a Push run
\* over the same directory issues the same upsert calls and creates no item,
\* and the board lists at most one item per story id.
C4_RepeatedPushCreatesNothing ==
    \A k \in 2..Len(hist) :
        BothPushed(k) =>
            /\ hist[k].created = 0
            /\ CallsOf(hist[k].calls, "upsert_story") = CallsOf(hist[k - 1].calls, "upsert_story")
            /\ (k = Len(hist) => DistinctStoryIds(ListProjectItems(remote)))

\* C5: a Push over a directory with a .md file whose frontmatter lacks the
\* title key or the status key fails with a parsing error that names such a
\* file.
C5_MissingFieldFailsRun ==
    (result.op = "push" /\ token /\ LastRun.exists
     /\ \E f \in MdFiles(files) : ~ValidStory(f)) =>
        /\ result.err = "ValueError"
        /\ \E f \in MdFiles(files) : ~ValidStory(f) /\ result.errArg = f.name

\* the records Pull was given: those the board listed as the last run started
RecordsBefore == ListProjectStoryDetails(LastRun.board)

\* the canonical form of the statuses a board of the model shows
CanonicalStatus(status) ==
    CASE status = Chars("Todo") -> Chars("todo")
      [] status = Chars("In Progress") -> Chars("in_progress")
      [] status = Chars("Done") -> Chars("done")
      [] status = Chars("On Hold") -> Chars("on_hold")
      [] OTHER -> status

TargetOf(record) == record.story_id \o Chars(".md")

\* a document that holds the record's title and canonical status in the
\* first two lines of its frontmatter
HoldsRecord(content, record) ==
    /\ SplitFrontmatter(content).fm # None
    /\ SubSeq(Val(SplitFrontmatter(content).fm), 1, 2)
          = <<TitleLine(record.title), StatusLine(CanonicalStatus(record.status))>>

WritesTo(name) == {i \in 1..Len(writes) : writes[i].name = name}

\* C6: after a successful Pull each record listed has its one write, to
\* <story_id>.md, of a document that holds title: "<title>" and status:
\* "<normalized status>"; each file is as its last write left it, so that a
\* listing of distinct story ids leaves exactly one write per file and every
\* record's title and status in its file; total_items = written_stories =
\* number of records.
C6_PullWritesEveryRecord ==
    PullDone =>
        /\ dirExists
        /\ result.total = Len(RecordsBefore)
        /\ result.updated = Len(RecordsBefore)
        /\ Len(writes) = Len(RecordsBefore)
        /\ \A k \in 1..Len(RecordsBefore) :
              /\ writes[k].name = TargetOf(RecordsBefore[k])
              /\ HoldsRecord(writes[k].content, RecordsBefore[k])
              /\ \E f \in files : f.name = TargetOf(RecordsBefore[k])
              /\ FileAt(files, TargetOf(RecordsBefore[k])).content
                    = writes[SetMax(WritesTo(TargetOf(RecordsBefore[k])))].content
        /\ DistinctStoryIds(RecordsBefore) =>
              \A k \in 1..Len(RecordsBefore) :
                  /\ Cardinality(WritesTo(TargetOf(RecordsBefore[k]))) = 1
                  /\ HoldsRecord(FileAt(files, TargetOf(RecordsBefore[k])).content,
                                 RecordsBefore[k])

C6_Witness ==
    /\ PullDone
    /\ Len(RecordsBefore) = 3
    /\ LastRun.exists
    /\ \E k \in 1..3 :
          /\ RecordsBefore[k].status = Chars("In Progress")
          /\ \E f \in LastRun.files : f.name = TargetOf(RecordsBefore[k])
          /\ HoldsRecord(FileAt(files, TargetOf(RecordsBefore[k])).content, RecordsBefore[k])

\* a title that does not open with a bracket, or never closes it
NoPrefix(title) ==
    \/ title = <<>>
    \/ title[1] # "["
    \/ \A i \in 1..Len(title) : title[i] # "]"

WithPrefix(board) == SelectSeq(board, LAMBDA item : ~NoPrefix(item.title))

\* the Push run the last run was, over the items of its board that carry a
\* prefix
PushWithout ==
    SyncStories(LastRun.exists, LastRun.files,
                [Client(-1) EXCEPT !.items = WithPrefix(LastRun.board)])

Named(log) == [k \in 1..Len(log) |-> <<log[k].op, log[k].story_id>>]

\* C10: an item whose title has no bracketed prefix is not listed, and a Push
\* run leaves it as it was, and ends, with the same error or the same counts
\* and after the same calls, as it does on the board without such items.
C10_UnprefixedInvisible ==
    /\ \A k \in 1..Len(ListProjectItems(remote)) :
          ~NoPrefix(remote[ListProjectItems(remote)[k].item_id].title)
    /\ result.op = "push" =>
          /\ \A i \in 1..Len(LastRun.board) :
                NoPrefix(LastRun.board[i].title) => remote[i] = LastRun.board[i]
          /\ Outcome("push", PushWithout) = result
          /\ Named(PushWithout.calls) = Named(calls)

C10_Witness ==
    /\ PushDone
    /\ \E i \in 1..Len(LastRun.board) :
          NoPrefix(LastRun.board[i].title) /\ ~LastRun.board[i].archived
    /\ CallsOf(calls, "archive_story") # <<>>
    /\ result.created > 0
    /\ Len(WithPrefix(LastRun.board)) < Len(LastRun.board)

\* the positions of the calls of op in the log
PositionsOf(log, op) == {k \in 1..Len(log) : log[k].op = op}

\* the path of the story file of a story id, within the directory
PathOf(story_id) == story_id \o Chars(".md")

\* C16: in every Push run validate_auth is the first call of the client and
\* is called once; the upsert_story calls are in ascending order of file
\* path; every upsert_story call comes before every archive_story call, the
\* listing between them; the archive_story calls are in ascending order of
\* story id.
C16_CallOrder ==
    result.op = "push" =>
        /\ PositionsOf(calls, "validate_auth") = {1}
        /\ \A i, j \in PositionsOf(calls, "upsert_story") :
              i < j => StrLess(PathOf(calls[i].story_id), PathOf(calls[j].story_id))
        /\ \A i \in PositionsOf(calls, "upsert_story"),
              j \in PositionsOf(calls, "archive_story") :
              \E k \in PositionsOf(calls, "list_project_stories") : i < k /\ k < j
        /\ \A i, j \in PositionsOf(calls, "archive_story") :
              i < j => StrLess(calls[i].story_id, calls[j].story_id)

C16_Witness ==
    /\ PushDone
    /\ Cardinality(PositionsOf(calls, "upsert_story")) >= 2
    /\ Cardinality(PositionsOf(calls, "archive_story")) >= 2

\* the title prefix upsert_story writes for a story id
PrefixOf(story_id) == <<"[">> \o story_id \o <<"]">>

\* the items of the board that carry the prefix of the story id and are not
\* archived
LiveItemsOf(board, story_id) ==
    {i \in 1..Len(board) :
        ~board[i].archived /\ StartsWith(board[i].title, PrefixOf(story_id))}

\* C17: after a successful Push run, for every story file the item that
\* upsert_story created or updated for it in the run is on the board, not
\* archived.
C17_UpsertedNotArchived ==
    PushDone =>
        \A k \in PositionsOf(calls, "upsert_story") :
            LiveItemsOf(remote, calls[k].story_id) # {}

\* the last two runs are successful Pull runs
PulledTwice ==
    /\ Len(hist) >= 2
    /\ PullDone
    /\ hist[Len(hist) - 1].op = "pull"
    /\ hist[Len(hist) - 1].err = NoErr

\* the body of a document: its lines after the frontmatter block
BodyOf(content) == SplitFrontmatter(content).body

\* C18: a second Pull in a row leaves every file with the content the first
\* one left, and a Pull leaves the body of every file that existed as it was.
C18_PullIdempotent ==
    /\ PulledTwice => files = LastRun.files
    /\ PullDone =>
          \A f \in LastRun.files :
              \E g \in files : g.name = f.name /\ BodyOf(g.content) = BodyOf(f.content)

\* no line of the file opens, once trimmed, with the key and a colon
LacksKey(f, key) ==
    \A i \in 1..Len(SplitLines(f.content)) :
        ~StartsWith(Strip(SplitLines(f.content)[i]), key \o <<":">>)

\* the .md files of the run's directory that _parse_story_file rejects
BadFiles == {f \in MdFiles(LastRun.files) : LacksKey(f, Chars("title")) \/ LacksKey(f, Chars("status"))}

\* a Push run with accepted credentials over a directory with a bad file
PushOverBadFile == result.op = "push" /\ token /\ LastRun.exists /\ BadFiles # {}

\* C19: when a .md file of the directory fails to parse, the Push run raises
\* ValueError naming a bad file before any upsert_story or archive_story
\* call, and the board is as it was, wherever the bad file comes in order.
C19_ParseBeforeMutate ==
    PushOverBadFile =>
        /\ result.err = "ValueError"
        /\ result.errArg \in {f.name : f \in BadFiles}
        /\ PositionsOf(calls, "upsert_story") = {}
        /\ PositionsOf(calls, "archive_story") = {}
        /\ remote = LastRun.board

C19_Witness ==
    /\ PushOverBadFile
    /\ result.err = "ValueError"
    /\ Cardinality(MdFiles(LastRun.files)) = 3
    /\ \A f \in BadFiles : f.name = Chars("s2.md")
    /\ Len(calls) = 1
    /\ Len(remote) > 0

\* the last run is a Push that follows a successful Pull into a directory
\* that held no story file
PushedAfterPull ==
    /\ Len(hist) >= 2
    /\ result.op = "push"
    /\ hist[Len(hist) - 1].op = "pull"
    /\ hist[Len(hist) - 1].err = NoErr
    /\ MdFiles(hist[Len(hist) - 1].files) = {}

\* C21: a Push that follows a successful Pull into a directory without story
\* files, the board unchanged in between, ends without error, archives no
\* story and creates no item.
C21_PushAfterPullStable ==
    PushedAfterPull =>
        /\ result.err = NoErr
        /\ PositionsOf(calls, "archive_story") = {}
        /\ result.created = 0
        /\ Len(remote) = Len(LastRun.board)

(***************************************************************************)
(* Properties of the codec.                                                *)
(***************************************************************************)
\* the key of a frontmatter line is title or status, whatever its case
HasOwnedKey(line) ==
    /\ Contains(line, ":")
    /\ Lower(Strip(BeforeFirst(line, ":"))) \in {Chars("title"), Chars("status")}

OtherLines(fm) == SelectSeq(fm, LAMBDA line : ~HasOwnedKey(line))

\* a document that opens with a --- line and has a later --- line
ClosingLines(lines) == {i \in 2..Len(lines) : lines[i] = Delimiter}

WellFormed(content) ==
    /\ SplitLines(content) # <<>>
    /\ SplitLines(content)[1] = Delimiter
    /\ ClosingLines(SplitLines(content)) # {}

\* the lines between the two delimiters
BlockOf(content) ==
    SubSeq(SplitLines(content), 2, SetMin(ClosingLines(SplitLines(content))) - 1)

Rendered == codec.stage \in {"rendered", "rerendered"}

\* the lines of a, in their order, are among the lines of b
RECURSIVE KeptIn(_, _)
KeptIn(a, b) ==
    IF a = <<>> THEN TRUE
    ELSE IF b = <<>> THEN FALSE
    ELSE IF a[1] = b[1] THEN KeptIn(Tail(a), Tail(b))
    ELSE KeptIn(a, Tail(b))

OneLine(text) == ~Contains(text, NL)

\* C7: when Pull rewrites a file with a well-formed frontmatter block, the
\* frontmatter lines whose key is neither title nor status (in any case) are
\* all in the new frontmatter, unchanged and in the same order, and when the
\* title and the status are one line each they are its only lines with
\* another key.
C7_OtherFrontmatterKept ==
    (Rendered /\ codec.existing # None /\ WellFormed(Val(codec.existing))) =>
        /\ WellFormed(codec.out)
        /\ KeptIn(OtherLines(BlockOf(Val(codec.existing))), BlockOf(codec.out))
        /\ (OneLine(codec.title) /\ OneLine(codec.arg)) =>
              OtherLines(BlockOf(codec.out)) = OtherLines(BlockOf(Val(codec.existing)))

C7_Witness ==
    /\ codec.stage = "rendered"
    /\ codec.existing # None
    /\ WellFormed(Val(codec.existing))
    /\ Len(OtherLines(BlockOf(Val(codec.existing)))) = 3
    /\ Len(BlockOf(Val(codec.existing))) = 5
    /\ Len(BlockOf(codec.out)) = 5

\* C8: a document rendered from no existing content and rendered again, a
\* frontmatter line possibly added in between, yields the title and the
\* status it was rendered from, and still holds the added line.
C8_RoundTrip ==
    codec.stage = "rerendered" =>
        /\ ExtractFrontmatterValue(SplitLines(codec.out), Chars("title")) = Some(codec.title)
        /\ ExtractFrontmatterValue(SplitLines(codec.out), Chars("status")) = Some(codec.arg)
        /\ codec.extra # None =>
              \E i \in 1..Len(BlockOf(codec.out)) : BlockOf(codec.out)[i] = Val(codec.extra)

Spellings == {Chars("in progress"), Chars("in_progress"), Chars("in-progress")}

Known == {Chars("todo"), Chars("done")} \cup Spellings

\* the status, trimmed and lower-cased, with every character of from made an
\* underscore
PassedThrough(normalized, from, out) ==
    /\ Len(out) = Len(normalized)
    /\ \A i \in 1..Len(out) :
          out[i] = (IF normalized[i] \in from THEN "_" ELSE normalized[i])

NormalizedAs(normalized, from, out) ==
    /\ normalized = Chars("todo") => out = Chars("todo")
    /\ normalized \in Spellings => out = Chars("in_progress")
    /\ normalized = Chars("done") => out = Chars("done")
    /\ normalized \notin Known => PassedThrough(normalized, from, out)

\* C9 as stated: the status is trimmed and lower-cased; todo, the three
\* spellings of in progress and done map to their canonical form; any other
\* input passes through with its internal whitespace made underscores.
C9_WhitespaceToUnderscores ==
    codec.stage = "normalized" =>
        NormalizedAs(Lower(Strip(codec.status)), Whitespace, codec.out)

\* C9 as amended: any other input passes through with its internal spaces
\* made underscores, other whitespace being left as it is.
C9_SpacesToUnderscores ==
    codec.stage = "normalized" =>
        NormalizedAs(Lower(Strip(codec.status)), {" "}, codec.out)

C9_Witness ==
    /\ codec.stage = "normalized"
    /\ codec.status = Chars("on\thold")
    /\ codec.out = Chars("on\thold")

\* lines open with a delimiter and hold a later one, D telling what a
\* delimiter is
Delimited(lines, D(_)) ==
    /\ lines # <<>>
    /\ D(lines[1])
    /\ \E i \in 2..Len(lines) : D(lines[i])

\* split is lines split at the first two delimiters, or lines as the body
SplitBy(lines, D(_), split) ==
    IF Delimited(lines, D)
    THEN \E i \in 2..Len(lines) :
            /\ D(lines[i])
            /\ \A j \in 2..(i - 1) : ~D(lines[j])
            /\ split.fm = Some(SubSeq(lines, 2, i - 1))
            /\ split.body = SubSeq(lines, i + 1, Len(lines))
    ELSE split.fm = None /\ split.body = lines

IsExactly(line) == line = Delimiter

IsTrimmed(line) == Strip(line) = Delimiter

\* C13 as stated: the document has frontmatter only if its first line is
\* exactly --- and a later line equals ---; the lines between are the
\* frontmatter and the lines after the body; otherwise the frontmatter is
\* absent and every line is body.
C13_SplitAtExactDelimiters ==
    codec.stage = "split" =>
        SplitBy(SplitLines(Val(codec.existing)), IsExactly, codec.out)

\* C13 as amended: a delimiter is a line that is --- once trimmed of
\* surrounding whitespace.
C13_SplitAtTrimmedDelimiters ==
    codec.stage = "split" =>
        SplitBy(SplitLines(Val(codec.existing)), IsTrimmed, codec.out)

C13_Witness ==
    /\ codec.stage = "split"
    /\ codec.existing = Some(Chars("--- \nowner: pm\n ---\nbody\n"))
    /\ codec.out = [fm |-> Some(<<Chars("owner: pm")>>), body |-> <<Chars("body")>>]

(***************************************************************************)
(* Properties of the client.                                               *)
(***************************************************************************)
\* the story ids of the items the board lists
ActiveIds(board) == StoryIds(ListProjectItems(board))

Archiving == result.op = "archive" /\ hist # <<>>

\* the last call archived the story id the call before it archived
ArchivedTwice ==
    /\ Archiving
    /\ Len(hist) = 2
    /\ hist[1].op = "archive"
    /\ hist[1].story_id = hist[2].story_id
    /\ hist[1].err = NoErr
    /\ hist[2].err = NoErr

\* archive_story for a story id no listed item carries leaves the board as
\* it is and raises nothing, even when the remote would answer no request
\* after the listing
ArchiveOfAbsentIsNoOp ==
    (Archiving /\ LastRun.story_id \notin ActiveIds(LastRun.board) /\ LastRun.fault # 0) =>
        /\ result.err = NoErr
        /\ remote = LastRun.board

\* C11: archive_story for a story id without a listed item changes nothing
\* and raises nothing, and the board after archiving a story id a second
\* time is the board after archiving it once.
C11_ArchiveIdempotent ==
    /\ ArchiveOfAbsentIsNoOp
    /\ ArchivedTwice => remote = LastRun.board

\* the client after the calls of log, made one by one on a remote that
\* answers every request
RECURSIVE Replayed(_, _)
Replayed(st, log) ==
    IF log = <<>> THEN st
    ELSE IF Head(log).op = "upsert_story"
    THEN Replayed(UpsertStory(st, Head(log).story_id, Head(log).title, Head(log).status),
                  Tail(log))
    ELSE IF Head(log).op = "archive_story"
    THEN Replayed(ArchiveStory(st, Head(log).story_id), Tail(log))
    ELSE Replayed(st, Tail(log))

LastCall == calls[Len(calls)]

\* the board the calls before the last one make of the board the run started on
BoardBefore ==
    Replayed([Client(-1) EXCEPT !.items = LastRun.board], SubSeq(calls, 1, Len(calls) - 1))

\* the item a failing upsert_story may have added before it raised
DraftOf(call) ==
    [title |-> <<"[">> \o call.story_id \o <<"]", " ">> \o call.title, status |-> <<>>,
     archived |-> FALSE]

\* a Push run ended by an upsert_story or archive_story call that raised
PushHalted ==
    /\ result.op = "push"
    /\ result.err # NoErr
    /\ calls # <<>>
    /\ LastCall.op \in {"upsert_story", "archive_story"}

\* C12: when an upsert_story or archive_story call of a Push run raises, the
\* run ends with that error, the calls before it have all taken effect and
\* keep their effect, and nothing is called after it: the board is the one
\* the earlier calls made, but for a draft item the failing upsert added.
C12_FailureHaltsWithoutRollback ==
    PushHalted =>
        /\ result.err \in {"GitHubApiError", "ValueError"}
        /\ BoardBefore.err = NoErr
        /\ \/ remote = BoardBefore.items
           \/ /\ LastCall.op = "upsert_story"
              /\ remote = Append(BoardBefore.items, DraftOf(LastCall))
        /\ result.total = 0 /\ result.updated = 0

C12_Witness ==
    /\ PushHalted
    /\ result.err = "GitHubApiError"
    /\ LastCall.op = "archive_story"
    /\ Len(CallsOf(calls, "upsert_story")) = 2
    /\ BoardBefore.items # LastRun.board
    /\ remote = BoardBefore.items

(***************************************************************************)
(* Properties of the hangman game.                                         *)
(***************************************************************************)
\* the letter, a str of one character, is at some position of the word
Occurs(letter, word) == \E i \in 1..Len(word) : word[i] = letter[1]

\* the letter of the last guess, in lower case as the word is
Guessed(g) == Lower(Val(g.letter))

\* a miss that counts: the letter is not in the word and was not guessed before
NewMiss(g, letter) == ~Occurs(letter, g.word) /\ letter \notin g.guessed_letters

\* what the masked word shows at position i of the word
At(g, i) == MaskedWord(g)[2 * i - 1]

\* C14: a guess returns True iff the letter occurs in the word; the score
\* grows by one iff the letter is not in the word and was not guessed before
\* and is unchanged otherwise; the masked word shows every position of a
\* letter guessed right, its other positions as before, and is unchanged by a
\* wrong guess.
C14_GuessTransition ==
    [][game' # game =>
          /\ game'.word = game.word
          /\ game'.returned = Occurs(Guessed(game'), game.word)
          /\ game'.score = game.score + (IF NewMiss(game, Guessed(game')) THEN 1 ELSE 0)
          /\ Occurs(Guessed(game'), game.word) =>
                \A i \in 1..Len(game.word) :
                    At(game', i) = (IF game.word[i] = Guessed(game')[1] THEN game.word[i]
                                    ELSE At(game, i))
          /\ ~Occurs(Guessed(game'), game.word) => MaskedWord(game') = MaskedWord(game)
      ]_vars

C14_Witness ==
    /\ game.word = Chars("tata")
    /\ game.letter = Some(Chars("T"))
    /\ game.returned
    /\ game.score = 2
    /\ MaskedWord(game) = Chars("t _ t _")

\* every distinct letter of the word has been guessed
AllGuessed(g) == {<<g.word[i]>> : i \in 1..Len(g.word)} \subseteq g.guessed_letters

\* the score has reached the limit
LimitReached(g) == g.score >= g.max_errors

\* C15: in every reachable state the status is "won" once every distinct
\* letter of the word has been guessed, "lost" once the score has reached
\* max_errors, and "ongoing" otherwise.
C15_StatusOfState ==
    /\ AllGuessed(game) => Status(game) = "won"
    /\ LimitReached(game) => Status(game) = "lost"
    /\ (~AllGuessed(game) /\ ~LimitReached(game)) => Status(game) = "ongoing"

\* the status while the game has not been guessed on after its end
StatusInPlay ==
    ~(AllGuessed(game) /\ LimitReached(game)) => C15_StatusOfState

Ended(g) == Status(g) \in {"won", "lost"}

\* C20: once the status is "won" or "lost" no further guess changes it, and
\* the score never exceeds max_errors.
C20_TerminalAbsorbing ==
    /\ [][Ended(game) => Status(game') = Status(game)]_vars
    /\ [](game.score <= game.max_errors)

====
